---- MODULE Spec2Model ----
(***************************************************************************)
(* A model of the query-processing pipeline of text2sql:                   *)
(* Text2SQLProcessor.process (app/core/text2sql.py) and the collaborators  *)
(* it awaits: LLMManager.get_llm, DatabaseManager.list_databases and       *)
(* get_database_info, VectorStore.search_tables, LLMProvider.generate_sql  *)
(* and execute_sql (app/utils/db_utils.py).                                *)
(*                                                                         *)
(* One request is one process() coroutine.  Each action below is the code  *)
(* of process() from one await to the next; pc names the call the          *)
(* coroutine is suspended on.  Optional values are 0- or 1-element tuples: *)
(* None is <<>> and a present value v is <<v>>.  Texts that the code       *)
(* concatenates (trace.reasoning) are sequences of tokens.                 *)
(***************************************************************************)
EXTENDS Naturals, Sequences, FiniteSets, TLC

VARIABLES
    request,       \* the QueryRequest the endpoint received
    llm_configs,   \* contents of data/config/llms.json (LLMManager)
    db_configs,    \* contents of data/config/databases.json (DatabaseManager)
    self,          \* the Text2SQLProcessor: llm_provider, database_id, vector_store
    pc,            \* position of the process() coroutine
    frame,         \* the local variables of process()
    trace,         \* the TraceData of the request
    response,      \* the QueryResponse returned (None until process returns)
    escaped,       \* the exception that left process(), if any
    calls,         \* the collaborator calls made so far, in order
    generation,    \* one LLMProvider.generate_sql call, followed step by step
    other,         \* a second request: its state while the first one runs
    adds,          \* the add_database calls, each with its position
    removed,       \* the ids remove_database has removed so far
    llm_calls      \* the add_llm and remove_llm calls made, with their results

\* The state of a request, and the whole state.
requestVars ==
    <<request, llm_configs, db_configs, self, pc, frame, trace, response, escaped, calls>>
\* What the registry operations keep, and what no action of a request changes.
registryVars == <<adds, removed, llm_calls>>
restVars == <<generation, other, registryVars>>
vars == <<requestVars, restVars>>

(***************************************************************************)
(* Bounds of the model.                                                    *)
(***************************************************************************)
MaxTables == 2     \* tables a database holds, at most
MaxHits == 2       \* entries a vector search returns, at most
MaxRows == 1       \* rows a statement returns, at most

(***************************************************************************)
(* Python values.                                                          *)
(***************************************************************************)
None == << >>
Some(v) == <<v>>
IsNone(o) == o = None
Get(o) == o[1]

\* `not x` for an Optional[str]: None and "" are both falsy.
FalsyStr(o) == o = None \/ o = Some("")
\* `not x` for a list.
FalsyList(l) == Len(l) = 0

\* An exception: its class and str(e).
Exc(cls, msg) == [cls |-> cls, msg |-> msg]
NoExc == Exc("", "")
\* The classes derived from Exception that the collaborators raise.
ExceptionClasses == {"ValueError", "KeyError", "RuntimeError"}

\* The outcome of a call: a returned value or a raised exception.
Return(v) == [raised |-> FALSE, exc |-> NoExc, val |-> Some(v)]
Raise(e) == [raised |-> TRUE, exc |-> e, val |-> None]

(***************************************************************************)
(* Values the collaborators can produce.                                   *)
(***************************************************************************)
TableSchema(i) == [name |-> "t" \o ToString(i)]
\* Schema introspection: the tables of a database, in introspection order.
TableLists == { [i \in 1..k |-> TableSchema(i)] : k \in 0..MaxTables }
\* Vector search: the metadata entries of the hits, best match first.
HitLists == { [i \in 1..k |-> TableSchema(MaxHits + 1 - i)] : k \in 0..MaxHits }

Queries == {"list users"}
Reasonings == { << >>, <<"mock query">> }
Sqls == {"", "SELECT 1", "SELECT 2"}
ExecErrors == {"syntax error", "connection refused"}
\* {"columns": [...], "rows": [...]} as the adapters build it.
ResultData(n) == [columns |-> IF n = 0 THEN << >> ELSE <<"id">>,
                  rows |-> [i \in 1..n |-> <<i>>]]
\* A statement that returns no rows gives ResultData(0); a SELECT that matches
\* nothing gives its columns and no rows.
ResultDatas == { ResultData(n) : n \in 0..MaxRows }
                   \cup {[columns |-> <<"id">>, rows |-> << >>]}

LlmConfig(id, provider) == [id |-> id, provider |-> provider]
DbConfig(id, type) == [id |-> id, type |-> type, connection_string |-> "conn-" \o id]

\* The first of the matching indices, 0 when there is none (a
\* `for ... if ...: break` loop over a list).
FirstIndex(matching) ==
    IF matching = {} THEN 0
    ELSE CHOOSE i \in matching : \A j \in matching : i <= j

(***************************************************************************)
(* models.py                                                               *)
(***************************************************************************)
TraceDataAttemptsDefault == 1
TraceData == [reasoning |-> << >>,
              retrieved_schemas |-> << >>,
              generated_sql |-> "",
              execution_result |-> None,
              errors |-> << >>,
              attempts |-> TraceDataAttemptsDefault]

QueryResult(columns, rows, row_count) ==
    [columns |-> columns, rows |-> rows, row_count |-> row_count]

QueryResponse(query, sql, result, database_id, llm_provider, tr, error, success) ==
    [query |-> query, sql |-> sql, result |-> result, database_id |-> database_id,
     llm_provider |-> llm_provider, trace |-> tr, error |-> error, success |-> success]

(***************************************************************************)
(* llm/manager.py, llm/providers.py                                        *)
(***************************************************************************)
SupportedProviders == {"openai", "anthropic", "local"}

\* The provider constructor: it returns the provider, or raises (no API key).
ProviderBuilds == {"built", "no api key"}

get_llm_provider(provider, build) ==
    IF provider \in SupportedProviders
    THEN IF build = "built"
         THEN Return(provider)
         ELSE Raise(Exc("ValueError", provider \o " API key not provided"))
    ELSE Raise(Exc("ValueError", "Unsupported LLM provider: " \o provider))

\* The configuration get_llm selects: by id, else by provider name, else the first.
SelectLLMConfigNoFallback(configs, llm_id) ==
    LET byId == FirstIndex({i \in 1..Len(configs) : configs[i].id = llm_id})
        byProvider ==
            FirstIndex({i \in 1..Len(configs) : configs[i].provider = llm_id})
    IN  IF byId # 0 THEN Some(configs[byId])
        ELSE IF byProvider # 0 THEN Some(configs[byProvider])
        ELSE None
SelectLLMConfig(configs, llm_id) ==
    LET byId == FirstIndex({i \in 1..Len(configs) : configs[i].id = llm_id})
        byProvider ==
            FirstIndex({i \in 1..Len(configs) : configs[i].provider = llm_id})
    IN  IF byId # 0 THEN Some(configs[byId])
        ELSE IF byProvider # 0 THEN Some(configs[byProvider])
        ELSE IF Len(configs) > 0 THEN Some(configs[1])
        ELSE None

get_llm(configs, llm_id, build) ==
    LET config == SelectLLMConfig(configs, llm_id)
    IN  IF IsNone(config)
        THEN Raise(Exc("ValueError", "No LLM configuration found for ID: " \o llm_id))
        ELSE get_llm_provider(Get(config).provider, build)

(***************************************************************************)
(* llm/providers.py: the parsing of a model response.  A text is a         *)
(* sequence of tokens and stands for their concatenation; the tokens are   *)
(* chosen so that no marker the code searches for straddles two of them.   *)
(***************************************************************************)
MaxLen == 4        \* tokens in a model response, at most

Tokens == {"Reasoning:", "SQL:", "SELECT 1", "sorry", "\n", ";", "<fence>sql",
           "<fence>", "-- note"}
Whitespace == {"\n"}
\* "<fence>" stands for the three backquotes of a markdown fence.
\* Tokens in which the fence occurs, in which upper-cased "SELECT" occurs, and
\* with which a comment line starts ("--" or "#").
FenceTokens == {"<fence>sql", "<fence>"}
SelectTokens == {"SELECT 1"}
CommentTokens == {"-- note"}

RECURSIVE TextsOfLen(_)
TextsOfLen(n) ==
    IF n = 0 THEN {<< >>}
    ELSE { Append(t, tok) : t \in TextsOfLen(n - 1), tok \in Tokens }
Texts == UNION { TextsOfLen(n) : n \in 0..MaxLen }

\* `marker in text`, for a set of tokens holding the marker.
Contains(text, marker) == \E i \in 1..Len(text) : text[i] \in marker
\* text.find(marker), counted in tokens from 1; 0 when absent.
Find(text, marker) == FirstIndex({i \in 1..Len(text) : text[i] \in marker})
\* text[i:] and text[:i] for the token at index i.
From(text, i) == SubSeq(text, i, Len(text))
Before(text, i) == SubSeq(text, 1, i - 1)
\* text.strip()
strip(text) ==
    LET solid == {i \in 1..Len(text) : text[i] \notin Whitespace}
    IN  IF solid = {} THEN << >>
        ELSE SubSeq(text, FirstIndex(solid),
                    CHOOSE i \in solid : \A j \in solid : j <= i)
\* text.split(sep)[0] and text.split(sep)[1], when sep occurs in text.
SplitHead(text, sep) == Before(text, Find(text, {sep}))
SplitSecond(text, sep) ==
    LET rest == From(text, Find(text, {sep}) + 1)
    IN  IF Contains(rest, {sep}) THEN SplitHead(rest, sep) ELSE rest
\* text.replace(old, "")
Remove(text, old) == SelectSeq(text, LAMBDA tok : tok # old)

\* re.findall(open + r"\s*([\s\S]*?)\s*" + fence, text): the first match's
\* group (as Some), or None when nothing matches.  The closing fence may be
\* the start of a "<fence>sql".
FirstFenced(text, open) ==
    LET i == Find(text, {open})
        rest == From(text, i + 1)
        j == Find(rest, FenceTokens)
    IN  IF i = 0 \/ j = 0 THEN None ELSE Some(strip(Before(rest, j)))

\* text.splitlines()
RECURSIVE splitlines(_)
splitlines(text) ==
    IF text = << >> THEN << >>
    ELSE LET nl == Find(text, {"\n"})
         IN  IF nl = 0 THEN <<text>>
             ELSE <<Before(text, nl)>> \o splitlines(From(text, nl + 1))

\* "\n".join(lines)
RECURSIVE join(_)
join(lines) ==
    IF lines = << >> THEN << >>
    ELSE IF Len(lines) = 1 THEN lines[1]
    ELSE lines[1] \o <<"\n">> \o join(Tail(lines))

\* Lines 68-80: the loop over the lines, from line i on.
RECURSIVE CleanLines(_, _)
CleanLines(lines, i) ==
    IF i > Len(lines) THEN << >>
    ELSE LET line == strip(lines[i])
         IN  IF line # << >> /\ line[1] \in CommentTokens
             THEN CleanLines(lines, i + 1)
             ELSE (IF line # << >> THEN <<lines[i]>> ELSE << >>)
                  \o (IF line # << >> /\ line[Len(line)] = ";" THEN << >>
                      ELSE CleanLines(lines, i + 1))

\* Lines 51-92.
_extract_clean_sql(sql_text) ==
    LET fenced == IF Contains(sql_text, {"<fence>sql"}) THEN FirstFenced(sql_text, "<fence>sql")
                  ELSE IF Contains(sql_text, {"<fence>"}) THEN FirstFenced(sql_text, "<fence>")
                  ELSE None
        unfenced == IF IsNone(fenced) THEN sql_text ELSE Get(fenced)
        sql == join(CleanLines(splitlines(unfenced), 1))
    IN  IF Contains(sql, {";"}) THEN SplitHead(sql, ";") \o <<";">> ELSE sql

\* Lines 205-231, 360-386 and 517-543: (reasoning, sql) from the response text.
ParseResponse(response_text) ==
    IF Contains(response_text, {"Reasoning:"}) /\ Contains(response_text, {"SQL:"})
    THEN [reasoning |-> strip(Remove(SplitHead(response_text, "SQL:"), "Reasoning:")),
          sql |-> _extract_clean_sql(strip(SplitSecond(response_text, "SQL:")))]
    ELSE IF Contains(response_text, SelectTokens)
    THEN LET sql_start_index == Find(response_text, SelectTokens)
         IN  [reasoning |-> strip(Before(response_text, sql_start_index)),
              sql |-> _extract_clean_sql(From(response_text, sql_start_index))]
    ELSE [reasoning |-> response_text, sql |-> << >>]

\* Line 190: `except Exception` around the structured call.
ExceptFallback(e) == e.cls \in ExceptionClasses
\* Lines 203, 358 and 515: no try statement encloses the await of ainvoke.
AInvokeHandled(e) == FALSE

\* Lines 131, 283 and 440: `if error:` selects the correction prompt, which
\* quotes previous_sql and error; otherwise the conversion prompt is used.
SelectPromptByPreviousSql(error, previous_sql) ==
    IF FalsyStr(previous_sql) THEN "fresh" ELSE "corrective"
SelectPrompt(error, previous_sql) ==
    IF FalsyStr(error) THEN "fresh" ELSE "corrective"

\* A generate_sql call: the provider, where the coroutine is, the calls made
\* to the model backend, the response text (when there is one), and what the
\* call returned or raised.
NoGen == [provider |-> "", pc |-> "idle", backend |-> << >>,
          response_text |-> None, result |-> None, exc |-> None]

\* instructor_client.chat.completions.create(response_model=SQLOutput): a
\* validated SQLOutput, or a failure (the backend's, or of the validation).
SQLOutputs ==
    { [reasoning |-> r, sql |-> q] :
        r \in {<<"sorry">>}, q \in {<< >>, <<"SELECT 1">>, <<"SELECT 1", ";">>} }
InstructorOutcomes ==
    { Return(o) : o \in SQLOutputs }
        \cup { Raise(Exc("RuntimeError", "model backend unavailable")),
               Raise(Exc("ValueError", "response is not a valid SQLOutput")) }
\* client.ainvoke(prompt_value): a message with its content, or a failure.
AInvokeOutcomes ==
    { Return(text) : text \in Texts }
        \cup { Raise(Exc("RuntimeError", "model backend unavailable")) }

(***************************************************************************)
(* db/adapters.py, db/manager.py                                           *)
(***************************************************************************)
SupportedDbTypes == {"postgres", "postgresql", "mysql", "sqlite"}

get_db_adapter(db_type) ==
    IF db_type \in SupportedDbTypes
    THEN Return(db_type)
    ELSE Raise(Exc("ValueError", "Unsupported database type: " \o db_type))

_get_config_by_id(configs, db_id) ==
    LET i == FirstIndex({k \in 1..Len(configs) : configs[k].id = db_id})
    IN  IF i # 0 THEN Some(configs[i]) ELSE None

get_db_type(configs, db_id) ==
    LET config == _get_config_by_id(configs, db_id)
    IN  IF IsNone(config) THEN None ELSE Some(Get(config).type)

get_connection_string(configs, db_id) ==
    LET config == _get_config_by_id(configs, db_id)
    IN  IF IsNone(config) THEN None ELSE Some(Get(config).connection_string)

\* The listing: one entry per stored configuration, in stored order.
list_databases(configs) ==
    [i \in 1..Len(configs) |->
        [id |-> configs[i].id, type |-> configs[i].type, connected |-> TRUE]]

\* Schema introspection by the adapter: the tables, or a failure.
Introspections == { Return(tables) : tables \in TableLists }
                     \cup {Raise(Exc("ValueError", "Failed to get table schemas"))}

\* The DatabaseInfo (here: id and tables), or None when the id is not stored or
\* the adapter cannot be built or cannot read the schemas.
get_database_info(configs, db_id, introspection) ==
    LET config == _get_config_by_id(configs, db_id)
    IN  IF IsNone(config) THEN None
        ELSE IF get_db_adapter(Get(config).type).raised THEN None
        ELSE IF introspection.raised THEN None
        ELSE Some([id |-> db_id, tables |-> Get(introspection.val)])

\* adapter.execute_query: the rows, or ValueError with the backend's text.
Executions == { Return(data) : data \in ResultDatas }
                 \cup { Raise(Exc("ValueError", "Failed to execute query: " \o err)) :
                          err \in ExecErrors }

(***************************************************************************)
(* utils/db_utils.py                                                       *)
(***************************************************************************)
execute_sqlNoLookup(sql, database_id, configs, execution) == execution
execute_sql(sql, database_id, configs, execution) ==
    LET db_type == get_db_type(configs, database_id)
        connection_string == get_connection_string(configs, database_id)
    IN  IF FalsyStr(db_type) \/ FalsyStr(connection_string)
        THEN Raise(Exc("ValueError", "Database with ID " \o database_id \o " not found"))
        ELSE IF get_db_adapter(Get(db_type)).raised
        THEN get_db_adapter(Get(db_type))
        ELSE execution

(***************************************************************************)
(* utils/vector_store.py                                                   *)
(***************************************************************************)
\* collection.query: the hits' metadata, or a failure of the index.
IndexQueries == { Return(hits) : hits \in HitLists }
                   \cup {Raise(Exc("RuntimeError", "index unavailable"))}

\* search_tables absorbs every failure of the index and returns [].
search_tables(index_query) ==
    IF index_query.raised THEN << >> ELSE Get(index_query.val)

(***************************************************************************)
(* core/text2sql.py: Text2SQLProcessor                                     *)
(***************************************************************************)
RetryCeiling == 3

\* No second request, no add_database call, no add_llm or remove_llm call.
NoRun == [pc |-> "none"]
NoAdds == << >>
NoLlmCalls == << >>

\* `while suspended on fn` the call is in flight; it is logged when it returns.
\* A call records what it was given (database_id, tables, sql, error,
\* previous_sql) and what came back (raised and its message, or returned);
\* get_llm also records the configuration it selected, and generate_sql the
\* query it was given and the prompt the provider selected.
Call(fn, out) ==
    [fn |-> fn, raised |-> out.raised, msg |-> out.exc.msg, returned |-> out.val,
     database_id |-> None, tables |-> None, sql |-> None, error |-> None,
     previous_sql |-> None, config |-> None, query |-> None, mode |-> None]

\* The locals of process() before any of them is bound.
NoFrame == [query |-> "", should_execute_sql |-> TRUE, llm |-> None,
            db_info |-> None, relevant_tables |-> << >>, sql |-> None,
            retry_sql |-> None, result |-> None, error |-> None,
            success |-> TRUE, e |-> None]

\* `except Exception` (lines 105, 144, 161) catches every class derived from
\* Exception.
CatchesValueErrorOnly(e) == e.cls = "ValueError"
ExceptException(e) == e.cls \in ExceptionClasses
\* Line 72: the clause around the vector search.
ExceptSearch(e) == e.cls \in ExceptionClasses
\* Lines 105 and 144: the clauses around the two executions.
ExceptExecute(e) == e.cls \in ExceptionClasses

\* Lines 161-172: the response of the outer handler.
OuterExceptFreshTrace(query, proc, tr, e) ==
    QueryResponse(query, "", None, proc.database_id, proc.llm_provider, TraceData,
                  Some(e.msg), FALSE)
OuterExceptNoError(query, proc, tr, e) ==
    QueryResponse(query, "", None, proc.database_id, proc.llm_provider, tr,
                  None, FALSE)
OuterExcept(query, proc, tr, e) ==
    QueryResponse(query, "", None, proc.database_id, proc.llm_provider, tr,
                  Some(e.msg), FALSE)

\* Lines 150-159: the response of a run that reached the end of the try block.
FinalResponseTraceSql(f, proc, tr) ==
    QueryResponse(f.query, tr.generated_sql, f.result, proc.database_id,
                  proc.llm_provider, tr, f.error, f.success)
FinalResponse(f, proc, tr) ==
    QueryResponse(f.query, Get(f.sql), f.result, proc.database_id,
                  proc.llm_provider, tr, f.error, f.success)

\* Lines 99-104 and 138-143: `if result_data: result = QueryResult(...)`.
BuildResultIfRows(result_data) ==
    IF Len(result_data.rows) = 0 THEN None
    ELSE Some(QueryResult(result_data.columns, result_data.rows,
                          Len(result_data.rows)))
BuildResult(result_data) ==
    Some(QueryResult(result_data.columns, result_data.rows, Len(result_data.rows)))

\* process() returns resp.
Returns(resp) ==
    /\ pc' = "done"
    /\ response' = Some(resp)
    /\ escaped' = None

\* An exception raised inside the outer try block (lines 44-159).
RaisedInTry(query, proc, tr, e) ==
    IF ExceptException(e)
    THEN Returns(OuterExcept(query, proc, tr, e))
    ELSE /\ pc' = "raised"
         /\ escaped' = Some(e)
         /\ response' = None

\* A collaborator that is given as a parameter may fail in a way its code in
\* this repository does not: the failure of a stub, or of the store behind it.
Fault(fn) == Raise(Exc("RuntimeError", fn \o " failed"))

\* process(query, should_execute_sql) is called: lines 42-46, up to the await
\* of get_llm.
Process ==
    /\ pc = "idle"
    /\ frame' = [NoFrame EXCEPT !.query = request.query,
                                !.should_execute_sql = request.should_execute_sql]
    /\ trace' = TraceData
    /\ pc' = "get_llm"
    /\ UNCHANGED <<restVars, request, llm_configs, db_configs, self, response, escaped, calls>>

\* Lines 46-57: get_llm returns or raises; then the database is chosen.
GetLLM(build) ==
    /\ pc = "get_llm"
    /\ LET out == get_llm(llm_configs, self.llm_provider, build)
       IN  /\ calls' = Append(calls,
                  [Call("get_llm", out)
                     EXCEPT !.config = SelectLLMConfig(llm_configs, self.llm_provider)])
           /\ IF out.raised
              THEN /\ RaisedInTry(frame.query, self, trace, out.exc)
                   /\ UNCHANGED frame
              ELSE /\ frame' = [frame EXCEPT !.llm = out.val]
                   /\ pc' = IF FalsyStr(self.database_id)
                            THEN "list_databases" ELSE "get_database_info"
                   /\ UNCHANGED <<response, escaped>>
    /\ UNCHANGED <<restVars, request, llm_configs, db_configs, self, trace>>

\* Line 54: databases[0].
LastEntry(databases) == databases[Len(databases)]
FirstEntry(databases) == databases[1]

\* Lines 51-57: the listing returns; the first entry is taken.
ListDatabases(fault) ==
    LET out == IF fault THEN Fault("list_databases")
                  ELSE Return(list_databases(db_configs))
    IN
    /\ pc = "list_databases"
    /\ calls' = Append(calls, Call("list_databases", out))
    /\ IF out.raised
       THEN /\ RaisedInTry(frame.query, self, trace, out.exc)
            /\ UNCHANGED self
       ELSE LET databases == Get(out.val)
            IN  IF FalsyList(databases)
                THEN /\ RaisedInTry(frame.query, self, trace,
                           Exc("ValueError", "No database connections available"))
                     /\ UNCHANGED self
                ELSE /\ self' = [self EXCEPT
                                   !.database_id = Some(FirstEntry(databases).id)]
                     /\ pc' = "get_database_info"
                     /\ UNCHANGED <<response, escaped>>
    /\ UNCHANGED <<restVars, request, llm_configs, db_configs, frame, trace>>

\* Lines 57-65: the database info returns; relevant_tables starts as all of its
\* tables.  _init_vector_store is entered.
GetDatabaseInfo(introspection, fault) ==
    LET out == IF fault THEN Fault("get_database_info")
                  ELSE Return(get_database_info(db_configs, Get(self.database_id),
                                                introspection))
    IN
    /\ pc = "get_database_info"
    /\ calls' = Append(calls, [Call("get_database_info", out)
                                EXCEPT !.database_id = self.database_id])
    /\ IF out.raised
       THEN /\ RaisedInTry(frame.query, self, trace, out.exc)
            /\ UNCHANGED frame
       ELSE LET db_info == Get(out.val)
            IN  IF IsNone(db_info)
                THEN /\ RaisedInTry(frame.query, self, trace,
                           Exc("ValueError", "Database with ID "
                                  \o Get(self.database_id) \o " not found"))
                     /\ UNCHANGED frame
                ELSE /\ frame' = [frame EXCEPT
                                    !.db_info = db_info,
                                    !.relevant_tables = Get(db_info).tables]
                     /\ pc' = "_init_vector_store"
                     /\ UNCHANGED <<response, escaped>>
    /\ UNCHANGED <<restVars, request, llm_configs, db_configs, self, trace>>

\* Lines 23-34: VectorStore() is built, or the failure is absorbed and the
\* search is skipped.  Line 65: `... and self.vector_store`.
VectorStoreBuilds == {"built", "failed"}

_init_vector_store(proc, build) ==
    IF IsNone(proc.vector_store)
    THEN IF build = "built"
         THEN [returned |-> TRUE, vector_store |-> Some("VectorStore")]
         ELSE [returned |-> FALSE, vector_store |-> None]
    ELSE [returned |-> TRUE, vector_store |-> proc.vector_store]

\* Lines 70-71: the search result replaces the full list only when non-empty.
NarrowAlways(relevant_tables, semantic_tables) == semantic_tables
Narrow(relevant_tables, semantic_tables) ==
    IF ~FalsyList(semantic_tables) THEN semantic_tables ELSE relevant_tables

\* Line 77: the candidate tables are stored in the trace, before line 80
\* calls the generator.
StoreRetrievedNot(tr, relevant_tables) == tr
StoreRetrieved(tr, relevant_tables) ==
    [tr EXCEPT !.retrieved_schemas = relevant_tables]

InitVectorStore(build) ==
    /\ pc = "_init_vector_store"
    /\ LET init == _init_vector_store(self, build)
       IN  /\ self' = [self EXCEPT !.vector_store = init.vector_store]
           /\ calls' = Append(calls, Call("_init_vector_store",
                                       IF init.returned THEN Return(TRUE)
                                       ELSE Raise(Exc("RuntimeError",
                                                      "vector store unavailable"))))
           /\ IF init.returned /\ ~IsNone(init.vector_store)
              THEN /\ pc' = "search_tables"
                   /\ UNCHANGED trace
              ELSE /\ trace' = StoreRetrieved(trace, frame.relevant_tables)
                   /\ pc' = "generate_sql"
    /\ UNCHANGED <<restVars, request, llm_configs, db_configs, frame, response, escaped>>

\* Lines 66-80: the search returns or raises; the candidate tables are stored
\* in the trace and the fresh generation is called.
SearchTables(index_query, fault) ==
    LET out == IF fault THEN Fault("search_tables")
                  ELSE Return(search_tables(index_query))
    IN
    /\ pc = "search_tables"
    /\ calls' = Append(calls, [Call("search_tables", out)
                                EXCEPT !.database_id = self.database_id])
    /\ LET relevant_tables ==
               IF out.raised
               THEN IF ExceptSearch(out.exc) THEN Some(frame.relevant_tables)
                    ELSE None
               ELSE Some(Narrow(frame.relevant_tables, Get(out.val)))
       IN  IF IsNone(relevant_tables)
           THEN /\ RaisedInTry(frame.query, self, trace, out.exc)
                /\ UNCHANGED <<frame, trace>>
           ELSE /\ frame' = [frame EXCEPT !.relevant_tables = Get(relevant_tables)]
                /\ trace' = StoreRetrieved(trace, Get(relevant_tables))
                /\ pc' = "generate_sql"
                /\ UNCHANGED <<response, escaped>>
    /\ UNCHANGED <<restVars, request, llm_configs, db_configs, self>>

\* generate_sql: (reasoning, sql), or a failure of the model backend.
Generations ==
    { Return([reasoning |-> r, sql |-> q]) : r \in Reasonings, q \in Sqls }
        \cup {Raise(Exc("RuntimeError", "model backend unavailable"))}

\* Lines 80-89 and 150-159: the fresh generation returns; without execution the
\* response is returned.
\* Line 87: `success = True`, whatever the SQL is.
SuccessIfSqlNonEmpty(sql) == sql # ""
SuccessBeforeExecution(sql) == TRUE

\* Line 89: `if should_execute_sql`.
ExecuteAlways(should_execute_sql) == TRUE
ShouldExecute(should_execute_sql) == should_execute_sql

GenerateSQL(out) ==
    /\ pc = "generate_sql"
    /\ calls' = Append(calls, [Call("generate_sql", out)
                                EXCEPT !.tables = Some(frame.relevant_tables),
                                       !.query = Some(frame.query),
                                       !.mode = Some(SelectPrompt(None, None))])
    /\ IF out.raised
       THEN /\ RaisedInTry(frame.query, self, trace, out.exc)
            /\ UNCHANGED <<frame, trace>>
       ELSE LET gen == Get(out.val)
                tr == [trace EXCEPT !.reasoning = gen.reasoning,
                                    !.generated_sql = gen.sql]
                f == [frame EXCEPT !.sql = Some(gen.sql), !.result = None,
                                   !.error = None,
                                   !.success = SuccessBeforeExecution(gen.sql)]
            IN  /\ trace' = tr
                /\ frame' = f
                /\ IF ShouldExecute(f.should_execute_sql)
                   THEN /\ pc' = "execute_sql"
                        /\ UNCHANGED <<response, escaped>>
                   ELSE Returns(FinalResponse(f, self, tr))
    /\ UNCHANGED <<restVars, request, llm_configs, db_configs, self>>

\* Line 112: the ceiling guard of the corrective round.
RetryAllowedBelowDefault(tr) == tr.attempts < TraceDataAttemptsDefault
RetryAllowed(tr) == tr.attempts < RetryCeiling

\* Lines 107-109 and 146-148: a failed execution is recorded.
RecordLastFailureOnly(tr, e) == [tr EXCEPT !.errors = <<e.msg>>]
RecordFailureAndCount(tr, e) ==
    [tr EXCEPT !.errors = Append(tr.errors, e.msg), !.attempts = @ + 1]
RecordFailure(tr, e) == [tr EXCEPT !.errors = Append(tr.errors, e.msg)]

\* Lines 121-123: the corrective reasoning is appended, tagged with the attempt.
ReplaceReasoning(tr, retry_reasoning) == retry_reasoning
AppendReasoning(tr, retry_reasoning) ==
    tr.reasoning \o <<"\n\nRetry attempt ", ToString(tr.attempts), ":\n">>
                 \o retry_reasoning

\* Lines 90-119 and 150-159: the first execution returns or raises.  On
\* success the response is returned; on failure the corrective generation is
\* called if the guard allows it, and otherwise the response is returned.
ExecuteSQL(execution) ==
    /\ pc = "execute_sql"
    /\ LET out == execute_sql(Get(frame.sql), Get(self.database_id), db_configs,
                              execution)
       IN  /\ calls' = Append(calls, [Call("execute_sql", out)
                                      EXCEPT !.sql = frame.sql,
                                             !.database_id = self.database_id])
           /\ IF ~out.raised
              THEN LET result_data == Get(out.val)
                       tr == [trace EXCEPT !.execution_result = Some(result_data)]
                       f == [frame EXCEPT !.result = BuildResult(result_data)]
                   IN  /\ trace' = tr
                       /\ frame' = f
                       /\ Returns(FinalResponse(f, self, tr))
              ELSE IF ~ExceptExecute(out.exc)
              THEN /\ RaisedInTry(frame.query, self, trace, out.exc)
                   /\ UNCHANGED <<frame, trace>>
              ELSE LET tr == RecordFailure(trace, out.exc)
                       f == [frame EXCEPT !.error = Some(out.exc.msg),
                                          !.success = FALSE,
                                          !.e = Some(out.exc.msg)]
                   IN  IF RetryAllowed(tr)
                       THEN /\ trace' = [tr EXCEPT !.attempts = @ + 1]
                            /\ frame' = f
                            /\ pc' = "generate_sql_retry"
                            /\ UNCHANGED <<response, escaped>>
                       ELSE /\ trace' = tr
                            /\ frame' = f
                            /\ Returns(FinalResponse(f, self, tr))
    /\ UNCHANGED <<restVars, request, llm_configs, db_configs, self>>

\* Lines 114-131: the corrective generation returns or raises.
GenerateSQLRetry(out) ==
    /\ pc = "generate_sql_retry"
    /\ calls' = Append(calls, [Call("generate_sql", out)
                                EXCEPT !.tables = Some(frame.relevant_tables),
                                       !.query = Some(frame.query),
                                       !.error = frame.e,
                                       !.previous_sql = frame.sql,
                                       !.mode = Some(SelectPrompt(frame.e, frame.sql))])
    /\ IF out.raised
       THEN /\ RaisedInTry(frame.query, self, trace, out.exc)
            /\ UNCHANGED <<frame, trace>>
       ELSE LET gen == Get(out.val)
            IN  /\ trace' = [trace EXCEPT
                                !.reasoning = AppendReasoning(trace, gen.reasoning),
                                !.generated_sql = gen.sql]
                /\ frame' = [frame EXCEPT !.retry_sql = Some(gen.sql)]
                /\ pc' = "execute_sql_retry"
                /\ UNCHANGED <<response, escaped>>
    /\ UNCHANGED <<restVars, request, llm_configs, db_configs, self>>

\* Lines 133-143: the corrective execution succeeded.
OnRetrySuccessKeepsFailure(f, result_data) ==
    [f EXCEPT !.sql = f.retry_sql, !.result = BuildResult(result_data)]
OnRetrySuccessKeepsError(f, result_data) ==
    [f EXCEPT !.sql = f.retry_sql, !.success = TRUE,
              !.result = BuildResult(result_data)]
OnRetrySuccess(f, result_data) ==
    [f EXCEPT !.sql = f.retry_sql, !.error = None, !.success = TRUE,
              !.result = BuildResult(result_data)]

\* Lines 147-148: the corrective execution failed.
OnRetryFailureKeepsFirstError(f, e) == [f EXCEPT !.success = FALSE]
OnRetryFailure(f, e) == [f EXCEPT !.error = Some(e.msg), !.success = FALSE]

\* Lines 144-150: after the corrective execution failed there is no way back
\* to the generator: the try block is left and the response is returned.
LoopBelowCeiling(tr) ==
    IF tr.attempts < RetryCeiling THEN "generate_sql_retry" ELSE "done"
AfterRetryFailure(tr) == "done"

\* Lines 126-159: the corrective execution returns or raises; either way the
\* response is returned.
ExecuteSQLRetry(execution) ==
    /\ pc = "execute_sql_retry"
    /\ LET out == execute_sql(Get(frame.retry_sql), Get(self.database_id),
                              db_configs, execution)
       IN  /\ calls' = Append(calls, [Call("execute_sql", out)
                                      EXCEPT !.sql = frame.retry_sql,
                                             !.database_id = self.database_id])
           /\ IF ~out.raised
              THEN LET result_data == Get(out.val)
                       tr == [trace EXCEPT !.execution_result = Some(result_data)]
                       f == OnRetrySuccess(frame, result_data)
                   IN  /\ trace' = tr
                       /\ frame' = f
                       /\ Returns(FinalResponse(f, self, tr))
              ELSE IF ~ExceptExecute(out.exc)
              THEN /\ RaisedInTry(frame.query, self, trace, out.exc)
                   /\ UNCHANGED <<frame, trace>>
              ELSE LET tr == RecordFailure(trace, out.exc)
                       f == OnRetryFailure(frame, out.exc)
                   IN  IF AfterRetryFailure(tr) = "done"
                       THEN /\ trace' = tr
                            /\ frame' = f
                            /\ Returns(FinalResponse(f, self, tr))
                       ELSE /\ trace' = [tr EXCEPT !.attempts = @ + 1]
                            /\ frame' = [f EXCEPT !.sql = frame.retry_sql,
                                                  !.e = Some(out.exc.msg)]
                            /\ pc' = AfterRetryFailure(tr)
                            /\ UNCHANGED <<response, escaped>>
    /\ UNCHANGED <<restVars, request, llm_configs, db_configs, self>>

(***************************************************************************)
(* The requests the model runs.                                            *)
(***************************************************************************)
\* llms.json as _load_configs reads it: empty (the file cannot be read, line
\* 156-158), or the default the manager writes followed by another.
LlmConfigLists ==
    { << >>,
      <<LlmConfig("default-openai", "openai"), LlmConfig("m2", "anthropic")>> }
\* Line 17: `llm_provider or os.getenv("DEFAULT_LLM_PROVIDER", "openai")`.
DefaultLlmProvider == "openai"
Text2SQLProcessor(llm_provider, database_id) ==
    [llm_provider |-> IF FalsyStr(llm_provider) THEN DefaultLlmProvider
                      ELSE Get(llm_provider),
     database_id |-> database_id,
     vector_store |-> None]

\* api/endpoints/queries.py, lines 11-15.
QueryRequests ==
    [query : Queries,
     llm_provider : {None, Some("m2"), Some("unknown")},
     should_execute_sql : BOOLEAN,
     database_id : {None, Some(""), Some("a"), Some("gone")}]

\* databases.json: what add_database has stored, in the order it was added.
DbConfigLists ==
    { << >>,
      <<DbConfig("a", "postgres"), DbConfig("b", "sqlite")>>,
      <<DbConfig("b", "sqlite"), DbConfig("a", "postgres")>> }

\* A request has arrived and its processor is built (queries.py, lines 24-26).
Init ==
    /\ request \in QueryRequests
    /\ llm_configs \in LlmConfigLists
    /\ db_configs \in DbConfigLists
    /\ self = Text2SQLProcessor(request.llm_provider, request.database_id)
    /\ pc = "idle"
    /\ frame = NoFrame
    /\ trace = TraceData
    /\ response = None
    /\ escaped = None
    /\ calls = << >>
    /\ other = NoRun
    /\ adds = NoAdds
    /\ removed = { }
    /\ llm_calls = NoLlmCalls
    /\ generation = NoGen

ProcessNext ==
    \/ Process
    \/ \E build \in ProviderBuilds : GetLLM(build)
    \/ \E fault \in BOOLEAN : ListDatabases(fault)
    \/ \E introspection \in Introspections, fault \in BOOLEAN :
            GetDatabaseInfo(introspection, fault)
    \/ \E build \in VectorStoreBuilds : InitVectorStore(build)
    \/ \E index_query \in IndexQueries, fault \in BOOLEAN :
            SearchTables(index_query, fault)
    \/ \E out \in Generations : GenerateSQL(out)
    \/ \E execution \in Executions : ExecuteSQL(execution)
    \/ \E out \in Generations : GenerateSQLRetry(out)
    \/ \E execution \in Executions : ExecuteSQLRetry(execution)

Next == ProcessNext

Spec == Init /\ [][Next]_vars

(***************************************************************************)
(* llm/providers.py: one generate_sql call of each provider.               *)
(***************************************************************************)
\* Lines 117-172, 270-356 and 427-513: generate_sql is called; the prompt is
\* built and the first backend call is awaited.
GenerateSqlCall ==
    /\ generation.pc = "idle"
    /\ generation' = [generation EXCEPT !.pc = IF generation.provider = "openai" THEN "instructor"
                                 ELSE "ainvoke"]
    /\ UNCHANGED <<requestVars, other, registryVars>>

\* Lines 173-200 (OpenAIProvider): the structured call returns its fields, or
\* any failure of it sends the call to the LangChain client.
InstructorCreate(out) ==
    /\ generation.pc = "instructor"
    /\ generation' = IF ~out.raised
              THEN [generation EXCEPT !.pc = "returned", !.result = out.val,
                               !.backend = Append(@, [client |-> "instructor",
                                                      raised |-> FALSE])]
              ELSE IF ExceptFallback(out.exc)
              THEN [generation EXCEPT !.pc = "ainvoke",
                               !.backend = Append(@, [client |-> "instructor",
                                                      raised |-> TRUE])]
              ELSE [generation EXCEPT !.pc = "raised", !.exc = Some(out.exc),
                               !.backend = Append(@, [client |-> "instructor",
                                                      raised |-> TRUE])]
    /\ UNCHANGED <<requestVars, other, registryVars>>

\* Lines 202-231, 357-386 and 514-543: ainvoke is awaited with no handler
\* around it; its response text is parsed and the pair is returned.
AInvoke(out) ==
    /\ generation.pc = "ainvoke"
    /\ generation' = IF ~out.raised
              THEN [generation EXCEPT !.pc = "returned",
                               !.response_text = out.val,
                               !.result = Some(ParseResponse(Get(out.val))),
                               !.backend = Append(@, [client |-> "langchain",
                                                      raised |-> FALSE])]
              ELSE IF AInvokeHandled(out.exc)
              THEN [generation EXCEPT !.pc = "returned",
                               !.result = Some([reasoning |-> <<out.exc.msg>>,
                                                sql |-> << >>]),
                               !.backend = Append(@, [client |-> "langchain",
                                                      raised |-> TRUE])]
              ELSE [generation EXCEPT !.pc = "raised", !.exc = Some(out.exc),
                               !.backend = Append(@, [client |-> "langchain",
                                                      raised |-> TRUE])]
    /\ UNCHANGED <<requestVars, other, registryVars>>

\* A provider of each kind has been built and generate_sql is about to be
\* called on it.
GenInit ==
    /\ request \in {r \in QueryRequests :
                      r.llm_provider = None /\ r.database_id = None
                        /\ r.should_execute_sql}
    /\ llm_configs = << >>
    /\ db_configs = << >>
    /\ self = Text2SQLProcessor(request.llm_provider, request.database_id)
    /\ pc = "idle"
    /\ frame = NoFrame
    /\ trace = TraceData
    /\ response = None
    /\ escaped = None
    /\ calls = << >>
    /\ other = NoRun
    /\ adds = NoAdds
    /\ removed = { }
    /\ llm_calls = NoLlmCalls
    /\ generation \in { [NoGen EXCEPT !.provider = p] : p \in SupportedProviders }

GenNext ==
    \/ GenerateSqlCall
    \/ \E out \in InstructorOutcomes : InstructorCreate(out)
    \/ \E out \in AInvokeOutcomes : AInvoke(out)

GenSpec == GenInit /\ [][GenNext]_vars

(***************************************************************************)
(* llm/manager.py: the lookup of the model of a request, over every        *)
(* llms.json of up to MaxConfigs entries.                                  *)
(***************************************************************************)
MaxConfigs == 2    \* entries of llms.json, at most

\* The ids the manager gives: the default's, and uuids.
LlmIds == {"default-openai"} \cup { "u" \o ToString(i) : i \in 1..(MaxConfigs - 1) }
RECURSIVE LlmListsOfLen(_)
LlmListsOfLen(n) ==
    IF n = 0 THEN {<< >>}
    ELSE { Append(l, LlmConfig(id, provider)) :
             l \in LlmListsOfLen(n - 1), id \in LlmIds,
             provider \in {"openai", "anthropic"} }
\* Line 59: every entry gets an id of its own.
LookupConfigLists ==
    { l \in UNION { LlmListsOfLen(n) : n \in 0..MaxConfigs } :
        \A i, j \in 1..Len(l) : l[i].id = l[j].id => i = j }

LookupRequests ==
    [query : Queries,
     llm_provider : {None, Some("default-openai"), Some("u1"), Some("anthropic"),
                     Some("unknown")},
     should_execute_sql : {TRUE},
     database_id : {None}]

LookupInit ==
    /\ request \in LookupRequests
    /\ llm_configs \in LookupConfigLists
    /\ db_configs = << >>
    /\ self = Text2SQLProcessor(request.llm_provider, request.database_id)
    /\ pc = "idle"
    /\ frame = NoFrame
    /\ trace = TraceData
    /\ response = None
    /\ escaped = None
    /\ calls = << >>
    /\ other = NoRun
    /\ adds = NoAdds
    /\ removed = { }
    /\ llm_calls = NoLlmCalls
    /\ generation = NoGen

\* process() up to the return of get_llm.
LookupNext ==
    \/ Process
    \/ \E build \in ProviderBuilds : GetLLM(build)

LookupSpec == LookupInit /\ [][LookupNext]_vars

(***************************************************************************)
(* db/manager.py: a request runs while databases are removed from the      *)
(* registry by other requests.                                             *)
(***************************************************************************)
\* Lines 152-159 and 172: the entry with the id is popped and the list saved;
\* without such an entry nothing changes.
remove_databaseDropsRest(configs, db_id) ==
    LET i == FirstIndex({k \in 1..Len(configs) : configs[k].id = db_id})
    IN  IF i = 0 THEN [returned |-> FALSE, configs |-> configs]
        ELSE [returned |-> TRUE, configs |-> SubSeq(configs, 1, i - 1)]
remove_database(configs, db_id) ==
    LET i == FirstIndex({k \in 1..Len(configs) : configs[k].id = db_id})
    IN  IF i = 0 THEN [returned |-> FALSE, configs |-> configs]
        ELSE [returned |-> TRUE,
              configs |-> SubSeq(configs, 1, i - 1)
                            \o SubSeq(configs, i + 1, Len(configs))]

DbIds == {"a", "b"}

\* DatabaseManager.remove_database(db_id), called for another request.  It
\* loads, pops and saves without awaiting, so the registry changes in one
\* step between two awaits of process(); the tables it then removes from the
\* vector index only change what a later search may return.
RemoveDatabase(db_id) ==
    /\ db_configs' = remove_database(db_configs, db_id).configs
    /\ removed' = IF remove_database(db_configs, db_id).returned
                  THEN removed \cup {db_id} ELSE removed
    /\ UNCHANGED <<generation, other, adds, llm_calls, request, llm_configs, self,
                   pc, frame, trace, response, escaped, calls>>

RegistryInit ==
    /\ request \in {r \in QueryRequests : IsNone(r.llm_provider) /\ r.should_execute_sql}
    /\ llm_configs \in LlmConfigLists \ {<< >>}
    /\ db_configs \in DbConfigLists
    /\ self = Text2SQLProcessor(request.llm_provider, request.database_id)
    /\ pc = "idle"
    /\ frame = NoFrame
    /\ trace = TraceData
    /\ response = None
    /\ escaped = None
    /\ calls = << >>
    /\ other = NoRun
    /\ adds = NoAdds
    /\ removed = { }
    /\ llm_calls = NoLlmCalls
    /\ generation = NoGen

RegistryNext ==
    \/ ProcessNext
    \/ \E db_id \in DbIds : RemoveDatabase(db_id)

RegistrySpec == RegistryInit /\ [][RegistryNext]_vars

(***************************************************************************)
(* db/manager.py: add_database and remove_database calls in one event      *)
(* loop.  databases.json is the stored list: _load_configs returns it and  *)
(* _save_configs replaces it (lines 248-267), and a call gives the loop    *)
(* away only at its awaits: add_database at test_connection (line 53) and  *)
(* at get_table_schemas (line 77), remove_database after its save.         *)
(***************************************************************************)
MaxAdds == 2    \* add_database calls, at most

\* Line 56: str(uuid.uuid4()), an id no other call gets.
NewDbId(i) == "new" \o ToString(i)
NewDbIds == { NewDbId(i) : i \in 1..MaxAdds }

AddedDbTypes == {"postgres", "oracle"}
\* adapters.py, lines 53-61: test_connection returns True or raises.
Connections ==
    {Return(TRUE),
     Raise(Exc("ValueError", "Failed to connect to PostgreSQL: connection refused"))}
\* vector_store.index_tables as add_database sees it (lines 81-84).
Indexings == {Return(TRUE), Raise(Exc("RuntimeError", "index unavailable"))}

AddCall(db_type, position, db_id, msg, indexed) ==
    [db_type |-> db_type, pc |-> position, db_id |-> db_id, msg |-> msg,
     indexed |-> indexed]

\* Lines 59-73: the list is loaded, the entry appended and the list saved,
\* with no await in between.
SaveAddedFirst(configs, entry) == <<entry>> \o configs
SaveAdded(configs, entry) == Append(configs, entry)

\* Lines 52-53: the adapter is built, or get_db_adapter raises out of the
\* call; then test_connection is awaited.
AddDatabase(db_type) ==
    /\ Len(adds) < MaxAdds
    /\ adds' = Append(adds,
                  IF get_db_adapter(db_type).raised
                  THEN AddCall(db_type, "raised", None,
                               Some(get_db_adapter(db_type).exc.msg), "no")
                  ELSE AddCall(db_type, "test_connection", None, None, "no"))
    /\ UNCHANGED <<requestVars, generation, other, removed, llm_calls>>

\* Lines 53-77: test_connection returns or raises.  A failure leaves the
\* call; after a success the entry is stored under a new id and
\* get_table_schemas is awaited.
TestConnection(i, connection) ==
    /\ i \in 1..Len(adds)
    /\ adds[i].pc = "test_connection"
    /\ IF connection.raised
       THEN /\ adds' = [adds EXCEPT ![i].pc = "raised",
                                    ![i].msg = Some(connection.exc.msg)]
            /\ UNCHANGED db_configs
       ELSE /\ adds' = [adds EXCEPT ![i].pc = "get_table_schemas",
                                    ![i].db_id = Some(NewDbId(i))]
            /\ db_configs' = SaveAdded(db_configs,
                                       DbConfig(NewDbId(i), adds[i].db_type))
    /\ UNCHANGED <<generation, other, removed, llm_calls, request, llm_configs,
                   self, pc, frame, trace, response, escaped, calls>>

\* Lines 30-39: DatabaseManager._init_vector_store.
ManagerVectorStore(build) == build = "built"

\* Lines 76-88: the schemas return or not, the vector store is there or not,
\* the indexing works or not: each failure is logged and the id is returned.
IndexOutcome(introspection, build, indexing) ==
    IF introspection.raised THEN "no schemas"
    ELSE IF ~ManagerVectorStore(build) THEN "no vector store"
    ELSE IF indexing.raised THEN "index failed"
    ELSE "indexed"

GetTableSchemas(i, introspection, build, indexing) ==
    /\ i \in 1..Len(adds)
    /\ adds[i].pc = "get_table_schemas"
    /\ adds' = [adds EXCEPT ![i].pc = "returned",
                            ![i].indexed =
                               IndexOutcome(introspection, build, indexing)]
    /\ UNCHANGED <<requestVars, generation, other, removed, llm_calls>>

DatabasesInit ==
    /\ request \in {r \in QueryRequests :
                       /\ IsNone(r.llm_provider) /\ IsNone(r.database_id)
                       /\ r.should_execute_sql}
    /\ llm_configs \in LlmConfigLists \ {<< >>}
    /\ db_configs \in DbConfigLists
    /\ self = Text2SQLProcessor(request.llm_provider, request.database_id)
    /\ pc = "idle"
    /\ frame = NoFrame
    /\ trace = TraceData
    /\ response = None
    /\ escaped = None
    /\ calls = << >>
    /\ other = NoRun
    /\ adds = NoAdds
    /\ removed = { }
    /\ llm_calls = NoLlmCalls
    /\ generation = NoGen

DatabasesNext ==
    \/ \E db_type \in AddedDbTypes : AddDatabase(db_type)
    \/ \E i \in 1..MaxAdds, connection \in Connections : TestConnection(i, connection)
    \/ \E i \in 1..MaxAdds, introspection \in Introspections,
          build \in VectorStoreBuilds, indexing \in Indexings :
            GetTableSchemas(i, introspection, build, indexing)
    \/ \E db_id \in DbIds \cup NewDbIds : RemoveDatabase(db_id)

DatabasesSpec == DatabasesInit /\ [][DatabasesNext]_vars

(***************************************************************************)
(* llm/manager.py: add_llm and remove_llm.  Neither awaits anything that   *)
(* gives the loop away (list_providers returns at once), so each call is   *)
(* one step on llms.json, the stored list.                                 *)
(***************************************************************************)
MaxLlmCalls == 3    \* add_llm and remove_llm calls, at most

\* Line 59: str(uuid.uuid4()), an id no other call gets.
NewLlmId(n) == "llm" \o ToString(n)
AddedLlms == Len(SelectSeq(llm_calls, LAMBDA c : c.fn = "add_llm" /\ ~c.raised))

\* Lines 142-147.
list_providers == {"openai", "anthropic", "local"}

\* Lines 43-84: the provider is validated, then the entry is appended under a
\* new id and the list saved.
add_llm(configs, provider, llm_id) ==
    IF provider \notin list_providers
    THEN [out |-> Raise(Exc("ValueError", "Unsupported LLM provider: " \o provider)),
          configs |-> configs]
    ELSE [out |-> Return(llm_id),
          configs |-> Append(configs, LlmConfig(llm_id, provider))]

\* Lines 122-140: the entry with the id is looked for; the only entry of the
\* list is not removed.
remove_llmAlways(configs, llm_id) ==
    LET i == FirstIndex({k \in 1..Len(configs) : configs[k].id = llm_id})
    IN  IF i = 0 THEN [out |-> Return(FALSE), configs |-> configs]
        ELSE [out |-> Return(TRUE),
              configs |-> SubSeq(configs, 1, i - 1)
                            \o SubSeq(configs, i + 1, Len(configs))]
remove_llm(configs, llm_id) ==
    LET i == FirstIndex({k \in 1..Len(configs) : configs[k].id = llm_id})
    IN  IF i = 0 THEN [out |-> Return(FALSE), configs |-> configs]
        ELSE IF Len(configs) = 1
        THEN [out |-> Raise(Exc("ValueError",
                                "Cannot remove the last LLM configuration")),
              configs |-> configs]
        ELSE [out |-> Return(TRUE),
              configs |-> SubSeq(configs, 1, i - 1)
                            \o SubSeq(configs, i + 1, Len(configs))]

LlmCall(fn, arg, out) ==
    [fn |-> fn, arg |-> arg, raised |-> out.raised, msg |-> out.exc.msg,
     returned |-> out.val]

AddLLM(provider) ==
    /\ Len(llm_calls) < MaxLlmCalls
    /\ LET r == add_llm(llm_configs, provider, NewLlmId(AddedLlms + 1))
       IN  /\ llm_configs' = r.configs
           /\ llm_calls' = Append(llm_calls, LlmCall("add_llm", provider, r.out))
    /\ UNCHANGED <<generation, other, adds, removed, request, db_configs, self, pc,
                   frame, trace, response, escaped, calls>>

RemoveLLM(llm_id) ==
    /\ Len(llm_calls) < MaxLlmCalls
    /\ LET r == remove_llm(llm_configs, llm_id)
       IN  /\ llm_configs' = r.configs
           /\ llm_calls' = Append(llm_calls, LlmCall("remove_llm", llm_id, r.out))
    /\ UNCHANGED <<generation, other, adds, removed, request, db_configs, self, pc,
                   frame, trace, response, escaped, calls>>

\* llms.json at the start: empty, the default entry that __init__ writes
\* (lines 21-34), or two entries.
StoredLlmLists ==
    LlmConfigLists \cup {<<LlmConfig("default-openai", "openai")>>}
RemovedLlmIds ==
    {"default-openai", "m2", "gone"} \cup { NewLlmId(n) : n \in 1..MaxLlmCalls }

AddedProviders == {"openai", "local", "cohere"}

LlmsInit ==
    /\ request \in {r \in QueryRequests :
                       /\ IsNone(r.llm_provider) /\ IsNone(r.database_id)
                       /\ r.should_execute_sql}
    /\ llm_configs \in StoredLlmLists
    /\ db_configs = << >>
    /\ self = Text2SQLProcessor(request.llm_provider, request.database_id)
    /\ pc = "idle"
    /\ frame = NoFrame
    /\ trace = TraceData
    /\ response = None
    /\ escaped = None
    /\ calls = << >>
    /\ other = NoRun
    /\ adds = NoAdds
    /\ removed = { }
    /\ llm_calls = NoLlmCalls
    /\ generation = NoGen

LlmsNext ==
    \/ \E provider \in AddedProviders : AddLLM(provider)
    \/ \E llm_id \in RemovedLlmIds : RemoveLLM(llm_id)

LlmsSpec == LlmsInit /\ [][LlmsNext]_vars

(***************************************************************************)
(* Two requests in one event loop.  process_query (queries.py, lines 24-30) *)
(* builds a Text2SQLProcessor for each request and awaits its process();   *)
(* the processor builds its own managers (text2sql.py, lines 14-21) and     *)
(* process() its own TraceData (line 42).  A run gives the loop away only  *)
(* at an await, which is where every action of a run ends, so the other    *)
(* request can take over between any two actions.                          *)
(***************************************************************************)
\* The request that holds the loop, as one record.
Running ==
    [request |-> request, self |-> self, pc |-> pc, frame |-> frame,
     trace |-> trace, response |-> response, escaped |-> escaped,
     calls |-> calls]

\* models.py, lines 24-30: TraceData is a pydantic model, which copies the
\* `[]` defaults of errors and retrieved_schemas for each instance; the trace a
\* run resumes with is the one it was suspended with.
ResumedTraceSharedDefault(parked, running) ==
    [parked.trace EXCEPT !.errors = running.trace.errors]
ResumedTrace(parked, running) == parked.trace

\* The running request is suspended at its await and the other one resumes.
Switch ==
    /\ other.pc # "none"
    /\ other' = Running
    /\ request' = other.request
    /\ self' = other.self
    /\ pc' = other.pc
    /\ frame' = other.frame
    /\ trace' = ResumedTrace(other, Running)
    /\ response' = other.response
    /\ escaped' = other.escaped
    /\ calls' = other.calls
    /\ UNCHANGED <<generation, registryVars, llm_configs, db_configs>>

\* The two requests: they differ in their query, and the second one may name
\* its database.
ConcurrentQueries == <<"list users", "count orders">>
ConcurrentRequest(i, database_id) ==
    [query |-> ConcurrentQueries[i], llm_provider |-> None,
     should_execute_sql |-> TRUE, database_id |-> database_id]
Arrived(r) ==
    [request |-> r, self |-> Text2SQLProcessor(r.llm_provider, r.database_id),
     pc |-> "idle", frame |-> NoFrame, trace |-> TraceData, response |-> None,
     escaped |-> None, calls |-> << >>]

\* What the collaborators answer while the two requests run.
ConcurrentIntrospections == {Return(<<TableSchema(1), TableSchema(2)>>)}
ConcurrentIndexQueries == {Return(<<TableSchema(2)>>)}
ConcurrentGenerations ==
    {Return([reasoning |-> <<"mock query">>, sql |-> "SELECT 1"]),
     Return([reasoning |-> << >>, sql |-> "SELECT 2"]),
     Raise(Exc("RuntimeError", "model backend unavailable"))}
ConcurrentExecutions ==
    {Return(ResultData(1)),
     Raise(Exc("ValueError", "Failed to execute query: syntax error")),
     Raise(Exc("ValueError", "Failed to execute query: connection refused"))}

ConcurrentInit ==
    /\ request = ConcurrentRequest(1, None)
    /\ llm_configs = <<LlmConfig("default-openai", "openai")>>
    /\ db_configs = <<DbConfig("a", "postgres"), DbConfig("b", "sqlite")>>
    /\ self = Text2SQLProcessor(request.llm_provider, request.database_id)
    /\ pc = "idle"
    /\ frame = NoFrame
    /\ trace = TraceData
    /\ response = None
    /\ escaped = None
    /\ calls = << >>
    /\ other \in { Arrived(ConcurrentRequest(2, d)) : d \in {None, Some("b")} }
    /\ adds = NoAdds
    /\ removed = { }
    /\ llm_calls = NoLlmCalls
    /\ generation = NoGen

ConcurrentNext ==
    \/ Switch
    \/ Process
    \/ GetLLM("built")
    \/ ListDatabases(FALSE)
    \/ \E introspection \in ConcurrentIntrospections :
            GetDatabaseInfo(introspection, FALSE)
    \/ \E build \in VectorStoreBuilds : InitVectorStore(build)
    \/ \E index_query \in ConcurrentIndexQueries : SearchTables(index_query, FALSE)
    \/ \E out \in ConcurrentGenerations : GenerateSQL(out)
    \/ \E execution \in ConcurrentExecutions : ExecuteSQL(execution)
    \/ \E out \in ConcurrentGenerations : GenerateSQLRetry(out)
    \/ \E execution \in ConcurrentExecutions : ExecuteSQLRetry(execution)

ConcurrentSpec == ConcurrentInit /\ [][ConcurrentNext]_vars

(***************************************************************************)
(* Properties.                                                             *)
(***************************************************************************)
Done == pc = "done"
Resp == Get(response)
CallsTo(fn) == SelectSeq(calls, LAMBDA c : c.fn = fn)
Generates == CallsTo("generate_sql")
Executes == CallsTo("execute_sql")
Searches == CallsTo("search_tables")
Listings == CallsTo("list_databases")
Infos == CallsTo("get_database_info")
LastCall == calls[Len(calls)]
\* The calls to fn made so far, the one in flight included.
Started(fn, pending) == Len(CallsTo(fn)) + (IF pc \in pending THEN 1 ELSE 0)
\* The full table list of the database descriptor.
DbTables == Get(Get(Infos[1].returned)).tables
\* The ExecutionOutcome built from what an execution returned.
Outcome(data) ==
    Some([columns |-> data.columns, rows |-> data.rows, row_count |-> Len(data.rows)])

\* C1: process always returns exactly one QueryResponse and no exception
\* escapes it, whatever each collaborator call returns or raises: no state has
\* an escaped exception, a response exists exactly when process has returned,
\* a run that has not returned can always take its next step, a run that has
\* returned takes no further step, and no run makes more than nine calls.
C1_Totality ==
    /\ pc # "raised"
    /\ escaped = None
    /\ Done <=> ~IsNone(response)
    /\ ~Done => ENABLED ProcessNext
    /\ Done => ~ENABLED ProcessNext
    /\ Len(calls) <= 9

C1_Witness ==
    /\ Done
    /\ Len(calls) = 9
    /\ LastCall.raised
    /\ \E i \in 1..Len(calls) : calls[i].fn = "search_tables" /\ calls[i].raised

\* C2: the corrective path runs at most once: at most two generate_sql calls,
\* at most two execute_sql calls, and trace.attempts never exceeds 2, so the
\* ceiling 3 is never reached.
C2_SingleRetry ==
    /\ Started("generate_sql", {"generate_sql", "generate_sql_retry"}) <= 2
    /\ Started("execute_sql", {"execute_sql", "execute_sql_retry"}) <= 2
    /\ trace.attempts <= 2
    /\ trace.attempts < RetryCeiling

C2_Witness ==
    /\ Done
    /\ Len(Executes) = 2
    /\ Executes[1].raised /\ Executes[2].raised
    /\ Len(Generates) = 2
    /\ Resp.trace.attempts = 2

\* C3: when the first execution fails and the second succeeds, the response
\* has success = true, error = None, trace.attempts = 2, exactly the first
\* failure's text in trace.errors, the result of the second execution, and
\* the corrected SQL as sql.
C3_FailThenSucceed ==
    (Done /\ request.should_execute_sql /\ Len(Executes) = 2
          /\ Executes[1].raised /\ ~Executes[2].raised)
    => /\ Resp.success = TRUE
       /\ Resp.error = None
       /\ Resp.trace.attempts = 2
       /\ Resp.trace.errors = <<Executes[1].msg>>
       /\ Resp.result = Outcome(Get(Executes[2].returned))
       /\ Len(Generates) = 2
       /\ Resp.sql = Get(Generates[2].returned).sql
       /\ Executes[2].sql = Some(Resp.sql)

C3_Witness ==
    /\ Done
    /\ Len(Executes) = 2
    /\ Executes[1].raised /\ ~Executes[2].raised
    /\ Resp.sql = "SELECT 2"
    /\ Get(Generates[1].returned).sql = "SELECT 1"
    /\ Len(Get(Resp.result).rows) = 1

\* C4: when execution is requested, every execution fails and both
\* generations return, the response has success = false, there was exactly
\* one corrective generation and exactly two executions, trace.errors holds
\* the two failures in order, and error is the text of the second failure.
C4_ExhaustedRetry ==
    (Done /\ request.should_execute_sql
          /\ Len(Executes) >= 1
          /\ (\A i \in 1..Len(Executes) : Executes[i].raised)
          /\ (\A j \in 1..Len(Generates) : ~Generates[j].raised))
    => /\ Resp.success = FALSE
       /\ Len(Generates) = 2
       /\ IsNone(Generates[1].error) /\ ~IsNone(Generates[2].error)
       /\ Len(Executes) = 2
       /\ Resp.trace.errors = <<Executes[1].msg, Executes[2].msg>>
       /\ Resp.error = Some(Executes[2].msg)

C4_Witness ==
    /\ Done
    /\ Len(Executes) = 2
    /\ Executes[1].raised /\ Executes[2].raised
    /\ Executes[1].msg # Executes[2].msg
    /\ Resp.success = FALSE
    /\ Len(Resp.trace.errors) = 2

C6_SkipTerminates ==
    (~request.should_execute_sql /\ Len(Generates) >= 1 /\ ~Generates[1].raised)
    => /\ Done
       /\ Len(Executes) = 0
       /\ Len(Generates) = 1
       /\ LastCall = Generates[1]
       /\ trace.attempts = 1
       /\ trace.errors = << >>
       /\ Resp.trace = trace
       /\ Resp.sql = Get(Generates[1].returned).sql

C6_Witness ==
    /\ Done
    /\ ~request.should_execute_sql
    /\ Len(Generates) = 1
    /\ Resp.sql = "SELECT 1"
    /\ Resp.trace.attempts = 1

\* The trace an aborted run had recorded when the call that raised was made.
TraceAtAbort ==
    IF LastCall.fn # "generate_sql" THEN TraceData
    ELSE IF Len(Generates) = 1
    THEN [TraceData EXCEPT !.retrieved_schemas = Get(LastCall.tables)]
    ELSE [reasoning |-> Get(Generates[1].returned).reasoning,
          retrieved_schemas |-> Get(LastCall.tables),
          generated_sql |-> Get(Generates[1].returned).sql,
          execution_result |-> None,
          errors |-> <<Executes[1].msg>>,
          attempts |-> 2]

\* C7: when get_llm, list_databases, get_database_info, the fresh generation
\* or the corrective generation raises, the response has success = false, the
\* failure's message as error, result = None, and the trace as it had been
\* recorded before the failure: empty before retrieval, retrieved_schemas
\* alone if the fresh generation raised, and the fresh reasoning and SQL, one
\* error and attempts = 2 if the corrective generation raised.
C7_AbortOnFailure ==
    (Done /\ LastCall.raised
          /\ LastCall.fn \in {"get_llm", "list_databases", "get_database_info",
                               "generate_sql"})
    => /\ Resp.success = FALSE
       /\ Resp.error = Some(LastCall.msg)
       /\ Resp.result = None
       /\ Resp.trace = TraceAtAbort
       /\ Resp.trace = trace

C7_Witness ==
    /\ Done
    /\ Len(Generates) = 2
    /\ Generates[2].raised
    /\ Resp.trace.attempts = 2
    /\ Len(Resp.trace.retrieved_schemas) = 2
    /\ Resp.trace.generated_sql = "SELECT 1"
    /\ Resp.error = Some("model backend unavailable")

\* The candidate tables the retrieval must yield: the search result when the
\* search returned a non-empty list, and otherwise (the vector store could not
\* be built, the search raised or returned nothing) all tables of the database.
Candidates ==
    IF Len(Searches) = 1 /\ ~Searches[1].raised
                         /\ Len(Get(Searches[1].returned)) > 0
    THEN Get(Searches[1].returned)
    ELSE DbTables

\* The retrieval step is over: generation has been called.
Retrieved ==
    \/ pc \in {"generate_sql", "execute_sql", "generate_sql_retry",
                "execute_sql_retry"}
    \/ Len(Generates) >= 1

\* C8: whatever the vector store does, the tables stored in
\* trace.retrieved_schemas and passed to every generate_sql call are the
\* search result when it is non-empty and otherwise all tables of the
\* database, so the list is empty only if the database has no tables.
C8_RetrievalFallback ==
    Retrieved
    => /\ trace.retrieved_schemas = Candidates
       /\ frame.relevant_tables = Candidates
       /\ \A i \in 1..Len(Generates) : Generates[i].tables = Some(Candidates)
       /\ (trace.retrieved_schemas = << >> => DbTables = << >>)
       /\ (Done => Resp.trace.retrieved_schemas = Candidates)

C8_Witness ==
    /\ Done
    /\ Len(Searches) = 1
    /\ ~Searches[1].raised
    /\ Searches[1].returned = Some(<< >>)
    /\ Len(DbTables) = 2
    /\ Resp.trace.retrieved_schemas = DbTables
    /\ Len(Generates) = 2

\* The vector store could not be built, or the search raised.
RetrievalFailed ==
    \E i \in 1..Len(calls) :
        calls[i].fn \in {"_init_vector_store", "search_tables"} /\ calls[i].raised
RetrievalMessages ==
    { calls[i].msg : i \in { j \in 1..Len(calls) :
        calls[j].fn \in {"_init_vector_store", "search_tables"} /\ calls[j].raised } }
FailedExecutions == { i \in 1..Len(Executes) : Executes[i].raised }

\* C9: a failure of the vector store never surfaces.  Right after it the run
\* is waiting for the fresh generation with all tables of the database as
\* candidates, exactly as after a search that returned nothing: no response,
\* no error, nothing in trace.errors.  In the end trace.errors holds only the
\* failed executions, and success and error are decided by the last
\* generation or execution alone.
C9_RetrievalSilent ==
    RetrievalFailed
    => /\ pc # "raised"
       /\ trace.retrieved_schemas = DbTables
       /\ Len(trace.errors) = Cardinality(FailedExecutions)
       /\ \A i \in 1..Len(trace.errors) : trace.errors[i] \notin RetrievalMessages
       /\ (LastCall.fn \in {"_init_vector_store", "search_tables"}
             => /\ pc = "generate_sql"
                /\ response = None
                /\ trace = [TraceData EXCEPT !.retrieved_schemas = DbTables]
                /\ frame.relevant_tables = DbTables
                /\ frame.error = None)
       /\ (Done
             => /\ LastCall.fn \in {"generate_sql", "execute_sql"}
                /\ Resp.success = ~LastCall.raised
                /\ Resp.error = IF LastCall.raised THEN Some(LastCall.msg) ELSE None)

C9_Witness ==
    /\ Done
    /\ Len(Searches) = 1
    /\ Searches[1].raised
    /\ Resp.success = TRUE
    /\ ~IsNone(Resp.result)
    /\ Resp.trace.errors = << >>
    /\ Len(Resp.trace.retrieved_schemas) = 2

\* C10: when no database id is supplied and the listing is not empty, the
\* listing is in stored order, its first entry is the database of the run:
\* get_database_info, the vector search and every execution are given its
\* id, and the response's database_id is that id.
C10_DefaultDatabase ==
    (FalsyStr(request.database_id) /\ Len(Listings) = 1 /\ ~Listings[1].raised
        /\ Len(Get(Listings[1].returned)) > 0)
    => LET listing == Get(Listings[1].returned)
           first == Some(listing[1].id)
       IN  /\ Len(listing) = Len(db_configs)
           /\ \A i \in 1..Len(listing) : listing[i].id = db_configs[i].id
           /\ self.database_id = first
           /\ \A i \in 1..Len(calls) :
                 calls[i].fn \in {"get_database_info", "search_tables", "execute_sql"}
                    => calls[i].database_id = first
           /\ (Done => Resp.database_id = first)

C10_Witness ==
    /\ Done
    /\ IsNone(request.database_id)
    /\ Len(db_configs) = 2
    /\ db_configs[1].id = "b"
    /\ Resp.database_id = Some("b")
    /\ Len(Executes) = 2
    /\ Executes[2].database_id = Some("b")

\* The steps of a run that come after the database is resolved.
AfterResolution ==
    {"get_database_info", "_init_vector_store", "search_tables", "generate_sql",
     "execute_sql", "generate_sql_retry", "execute_sql_retry"}

\* C11: when the request names no database and the registry is empty, the run
\* never gets past the listing: get_database_info, the vector store,
\* generate_sql and execute_sql are never called, and the response has
\* success = false, an error (the "no database" message when the listing
\* returned), sql = "" and result = None.
C11_NoDatabase ==
    (FalsyStr(request.database_id) /\ db_configs = << >>)
    => /\ pc \notin AfterResolution
       /\ \A i \in 1..Len(calls) : calls[i].fn \in {"get_llm", "list_databases"}
       /\ Len(Generates) = 0 /\ Len(Executes) = 0 /\ Len(Searches) = 0
       /\ (Len(Listings) = 1 =>
              /\ Done
              /\ ~Listings[1].raised => Listings[1].returned = Some(<< >>))
       /\ (Done =>
              /\ Resp.success = FALSE
              /\ Resp.error # None
              /\ Resp.sql = ""
              /\ Resp.result = None
              /\ (Len(Listings) = 1 /\ ~Listings[1].raised
                    => Resp.error = Some("No database connections available")))

C11_Witness ==
    /\ Done
    /\ IsNone(request.database_id)
    /\ request.should_execute_sql
    /\ Len(Listings) = 1
    /\ Listings[1].returned = Some(<< >>)
    /\ Resp.error = Some("No database connections available")
    /\ Resp.success = FALSE

\* The last execution performed.
LastExecution == Executes[Len(Executes)]

\* C12: in every response, a result that is present implies that execution
\* was requested, that the last execution performed returned (and the result
\* is built from what it returned), that success = true and error = None.
C12_ResultImpliesSuccess ==
    (Done /\ ~IsNone(Resp.result))
    => /\ request.should_execute_sql
       /\ Len(Executes) >= 1
       /\ ~LastExecution.raised
       /\ LastCall = LastExecution
       /\ Resp.result = Outcome(Get(LastExecution.returned))
       /\ Resp.success = TRUE
       /\ Resp.error = None

C12_Witness ==
    /\ Done
    /\ ~IsNone(Resp.result)
    /\ Len(Executes) = 2
    /\ Executes[1].raised
    /\ Get(Resp.result).row_count = 1
    /\ Resp.trace.errors # << >>

\* The fresh generation returned empty SQL text and execution was requested.
EmptyFreshSql ==
    /\ request.should_execute_sql
    /\ Len(Generates) >= 1
    /\ ~Generates[1].raised
    /\ Get(Generates[1].returned).sql = ""

\* C13: when execution is requested and the fresh generation returns empty
\* SQL, the run records a failure and performs the corrective round: the
\* response has at least one entry in trace.errors, a second generate_sql call
\* was made, and success = true is never returned with the empty fresh SQL as
\* the final SQL.
C13_EmptySqlIsFailure ==
    (Done /\ EmptyFreshSql)
    => /\ Len(Resp.trace.errors) >= 1
       /\ Len(Generates) = 2
       /\ ~IsNone(Generates[2].error)
       /\ ~(Resp.success /\ Resp.sql = "" /\ Len(Generates) = 1)

\* The generate_sql call has returned, and the pair it returned.
Returned == generation.pc = "returned"
Pair == Get(generation.result)
\* The last call made to the model backend.
LastBackend == generation.backend[Len(generation.backend)]
\* A response text in which the parser finds neither the "Reasoning:"/"SQL:"
\* format nor a SELECT.
Unparseable(text) ==
    /\ ~(Contains(text, {"Reasoning:"}) /\ Contains(text, {"SQL:"}))
    /\ ~Contains(text, SelectTokens)

\* C14: for every provider generate_sql never raises: when the model backend
\* fails the call still returns, with sql = "", and when the response cannot
\* be parsed it returns with sql = "".
C14_DegradeNotRaise ==
    /\ generation.pc # "raised"
    /\ generation.exc = None
    /\ (Returned /\ LastBackend.raised => Pair.sql = << >>)
    /\ (Returned /\ ~IsNone(generation.response_text)
          /\ Unparseable(Get(generation.response_text))
        => Pair.sql = << >>)

\* The response text holds SQL: a statement occurs in it.
HasSql(text) == Contains(text, SelectTokens)
\* Statement text: a statement, with nothing but statement text, line breaks
\* and the terminator around it.
IsStatementText(sql) ==
    /\ Contains(sql, SelectTokens)
    /\ \A i \in 1..Len(sql) : sql[i] \in SelectTokens \cup {";", "\n"}

\* C15: when the response text holds no identifiable SQL, generate_sql returns
\* sql = "" and the full raw response as reasoning; and whenever the returned
\* sql is not empty it is statement text, not prose.
C15_Unextractable ==
    (Returned /\ ~IsNone(generation.response_text))
    => LET text == Get(generation.response_text)
       IN  /\ (~HasSql(text) => Pair.sql = << >> /\ Pair.reasoning = text)
           /\ (Pair.sql # << >> => IsStatementText(Pair.sql))

\* The get_llm call of the run, the identifier it was given, and the entries
\* of llms.json whose id, or whose provider, is the identifier.
Lookups == CallsTo("get_llm")
Identifier == self.llm_provider
ById == {i \in 1..Len(llm_configs) : llm_configs[i].id = Identifier}
ByProvider == {i \in 1..Len(llm_configs) : llm_configs[i].provider = Identifier}
NoConfiguration == "No LLM configuration found for ID: " \o Identifier

\* C16: get_llm(identifier) selects the configuration whose id is the
\* identifier; if there is none, the first in stored order whose provider is
\* the identifier; if there is none, the first configuration; and it fails for
\* want of a configuration exactly when the list is empty.  The provider built
\* is the selected configuration's.
C16_Lookup ==
    Len(Lookups) = 1
    => LET c == Lookups[1]
       IN  /\ (ById # {} =>
                  /\ ~IsNone(c.config)
                  /\ Get(c.config).id = Identifier)
           /\ (ById = {} /\ ByProvider # {} =>
                  \E k \in ByProvider :
                     /\ c.config = Some(llm_configs[k])
                     /\ \A j \in ByProvider : k <= j)
           /\ (ById = {} /\ ByProvider = {} /\ llm_configs # << >> =>
                  c.config = Some(llm_configs[1]))
           /\ (llm_configs = << >> <=> IsNone(c.config))
           /\ (llm_configs = << >> <=> (c.raised /\ c.msg = NoConfiguration))
           /\ (~c.raised => c.returned = Some(Get(c.config).provider))

C16_Witness ==
    /\ Len(Lookups) = 1
    /\ ~Lookups[1].raised
    /\ Len(llm_configs) = 2
    /\ ById = {}
    /\ ByProvider = {1, 2}
    /\ Lookups[1].config = Some(llm_configs[1])

\* The configuration whose model the run obtained from get_llm.
UsedConfig == Get(Lookups[1].config)

\* C17: the llm_provider of every response is the identifier of the model
\* that was used, its id or its provider name, for every requested
\* identifier, one resolved by fallback included.
C17_ProviderUsed ==
    (Done /\ Len(Lookups) = 1 /\ ~Lookups[1].raised)
    => Resp.llm_provider \in {UsedConfig.id, UsedConfig.provider}

\* C18: whenever the last execution of a run returned, the response has
\* success = true and a result with the columns and rows that were returned
\* and row_count = the number of rows; when the executor returned no columns
\* and no rows the result is present and empty, with row_count = 0.
C18_ResultOnSuccess ==
    (Done /\ Len(Executes) >= 1 /\ ~LastExecution.raised)
    => LET data == Get(LastExecution.returned)
       IN  /\ Resp.success = TRUE
           /\ ~IsNone(Resp.result)
           /\ Get(Resp.result).columns = data.columns
           /\ Get(Resp.result).rows = data.rows
           /\ Get(Resp.result).row_count = Len(data.rows)
           /\ (data = [columns |-> << >>, rows |-> << >>]
                 => Resp.result = Some(QueryResult(<< >>, << >>, 0)))
           /\ Resp.trace.execution_result = Some(data)

C18_Witness ==
    /\ Done
    /\ Len(Executes) = 1
    /\ Executes[1].returned = Some([columns |-> << >>, rows |-> << >>])
    /\ Resp.success = TRUE
    /\ Resp.result = Some(QueryResult(<< >>, << >>, 0))

\* The first execution failed; the corrective generation was called.
FirstExecutionFailed == Len(Executes) >= 1 /\ Executes[1].raised
CorrectiveStarted == pc = "generate_sql_retry" \/ Len(Generates) >= 2
NotRegistered(db_id) == "Database with ID " \o db_id \o " not found"

\* C19: every failure of the first execution starts the corrective round,
\* whatever failed (the statement, the connection, or the database having
\* been removed from the registry meanwhile): while the first execution is
\* awaited trace.attempts is 1 and below the ceiling, and once it has failed
\* the corrective generation has been called, with the failure's text and the
\* failed SQL.
C19_FailureTriggersRetry ==
    /\ (pc = "execute_sql" => trace.attempts = 1 /\ trace.attempts < RetryCeiling)
    /\ (request.should_execute_sql /\ FirstExecutionFailed
          => /\ CorrectiveStarted
             /\ frame.e = Some(Executes[1].msg)
             /\ (Len(Generates) >= 2
                   => /\ Generates[2].error = Some(Executes[1].msg)
                      /\ Generates[2].previous_sql = Executes[1].sql))

C19_Witness ==
    /\ Done
    /\ ~IsNone(self.database_id)
    /\ Len(Executes) = 2
    /\ Executes[1].msg = NotRegistered(Get(self.database_id))
    /\ Len(Generates) = 2
    /\ Generates[2].error = Some(NotRegistered(Get(self.database_id)))

\* The messages of the execute_sql calls that have failed so far, in order.
FailureMessages ==
    LET failed == SelectSeq(Executes, LAMBDA c : c.raised)
    IN  [i \in 1..Len(failed) |-> failed[i].msg]
\* The corrective generations started so far, the one in flight included.
CorrectiveGenerations ==
    Len(SelectSeq(Generates, LAMBDA c : ~IsNone(c.error)))
        + (IF pc = "generate_sql_retry" THEN 1 ELSE 0)

\* C20: at every point of a run, and in the response, trace.errors holds the
\* messages of the execute_sql calls that have failed so far, in failure
\* order, and trace.attempts is 1 plus the number of corrective generations
\* started; so attempts is 1 or 2, errors has at most two entries, and errors
\* is non-empty only if execution was requested.
C20_TraceCounters ==
    /\ trace.errors = FailureMessages
    /\ Len(trace.errors) = Cardinality(FailedExecutions)
    /\ trace.attempts = TraceDataAttemptsDefault + CorrectiveGenerations
    /\ trace.attempts \in {1, 2}
    /\ Len(trace.errors) \in {0, 1, 2}
    /\ (trace.errors # << >> => request.should_execute_sql)
    /\ (Done => Resp.trace = trace)

C20_Witness ==
    /\ Done
    /\ Resp.trace.attempts = 2
    /\ Len(Resp.trace.errors) = 2
    /\ Resp.trace.errors[1] # Resp.trace.errors[2]
    /\ Resp.trace.errors = <<Executes[1].msg, Executes[2].msg>>

\* The run reached the end of the try block (lines 150-159): no unexpected
\* failure aborted it.
Completed ==
    /\ Done
    /\ \/ LastCall.fn = "execute_sql"
       \/ LastCall.fn = "generate_sql" /\ ~LastCall.raised /\ Len(Generates) = 1

\* C21: in every response success = true exactly when error = None; and when
\* success = false on a run that no unexpected failure aborted, error is the
\* last entry of trace.errors.
C21_SuccessIffNoError ==
    Done
    => /\ (Resp.success = TRUE <=> Resp.error = None)
       /\ (Completed /\ Resp.success = FALSE
             => /\ Resp.trace.errors # << >>
                /\ Resp.error = Some(Resp.trace.errors[Len(Resp.trace.errors)]))

C21_Witness ==
    /\ Completed
    /\ Resp.success = FALSE
    /\ Len(Resp.trace.errors) = 2
    /\ Resp.trace.errors[1] # Resp.trace.errors[2]
    /\ Resp.error = Some(Resp.trace.errors[2])

\* What the fresh and the corrective generation returned.
Fresh == Get(Generates[1].returned)
Corrective == Get(Generates[2].returned)
FreshReturned == Len(Generates) >= 1 /\ ~Generates[1].raised
CorrectiveReturned == Len(Generates) = 2 /\ ~Generates[2].raised
IsPrefix(p, t) == Len(p) <= Len(t) /\ SubSeq(t, 1, Len(p)) = p

\* C22: once the fresh generation has returned, its reasoning stays a prefix
\* of trace.reasoning; until a corrective generation returns trace.reasoning
\* is the fresh reasoning and trace.generated_sql the fresh SQL; after it,
\* trace.reasoning is the fresh reasoning, then the separator tagged with
\* attempt 2, then the corrective reasoning, and trace.generated_sql is the
\* corrected SQL.
C22_ReasoningAppended ==
    FreshReturned
    => /\ IsPrefix(Fresh.reasoning, trace.reasoning)
       /\ (~CorrectiveReturned
             => /\ trace.reasoning = Fresh.reasoning
                /\ trace.generated_sql = Fresh.sql)
       /\ (CorrectiveReturned
             => /\ trace.reasoning =
                      Fresh.reasoning \o <<"\n\nRetry attempt ", "2", ":\n">>
                                      \o Corrective.reasoning
                /\ trace.generated_sql = Corrective.sql)
       /\ (Done => Resp.trace.reasoning = trace.reasoning)

C22_Witness ==
    /\ Done
    /\ CorrectiveReturned
    /\ Fresh.reasoning = <<"mock query">>
    /\ Corrective.reasoning = <<"mock query">>
    /\ Len(Resp.trace.reasoning) = 5
    /\ Fresh.sql = "SELECT 1"
    /\ Resp.trace.generated_sql = "SELECT 2"

\* The place of each collaborator in the order of process().
Stage(fn) ==
    CASE fn = "get_llm" -> 1
      [] fn = "list_databases" -> 2
      [] fn = "get_database_info" -> 3
      [] fn = "_init_vector_store" -> 4
      [] fn = "search_tables" -> 5
      [] fn = "generate_sql" -> 6
      [] fn = "execute_sql" -> 7
\* The calls before the first generate_sql call.
IsPreparation(i) == Stage(calls[i].fn) <= 5

\* C23: the calls of a request are made one after the other in the order of
\* the pipeline: database resolution (list_databases, get_database_info)
\* before schema retrieval (the vector store), retrieval before generation,
\* with the candidate tables already in trace.retrieved_schemas when the
\* first generate_sql call starts; every execute_sql call directly follows
\* the generate_sql call that returned the SQL it runs; a corrective
\* generate_sql call directly follows a failed execute_sql call; and each
\* step adds at most one call, the one the run was suspended on.
C23_StepOrder ==
    /\ [](/\ \A i, j \in 1..Len(calls) :
                (i < j /\ IsPreparation(j))
                   => Stage(calls[i].fn) < Stage(calls[j].fn)
          /\ \A i \in 1..Len(calls) :
                /\ (calls[i].fn = "generate_sql" /\ IsNone(calls[i].error))
                      => \A k \in 1..(i - 1) : IsPreparation(k)
                /\ calls[i].fn = "execute_sql"
                      => /\ i > 1
                         /\ calls[i - 1].fn = "generate_sql"
                         /\ ~calls[i - 1].raised
                         /\ calls[i].sql = Some(Get(calls[i - 1].returned).sql)
                /\ (calls[i].fn = "generate_sql" /\ ~IsNone(calls[i].error))
                      => /\ i > 1
                         /\ calls[i - 1].fn = "execute_sql"
                         /\ calls[i - 1].raised
          /\ (pc = "generate_sql"
                => /\ Len(Generates) = 0
                   /\ Len(Infos) = 1
                   /\ trace.retrieved_schemas = frame.relevant_tables
                   /\ trace.retrieved_schemas \in {DbTables} \cup HitLists))
    /\ [][\/ calls' = calls
          \/ /\ Len(calls') = Len(calls) + 1
             /\ SubSeq(calls', 1, Len(calls)) = calls
             /\ pc # pc'
             /\ pc \notin {"idle", "done", "raised"}]_vars

C23_Witness ==
    /\ Done
    /\ Len(calls) = 9
    /\ calls[2].fn = "list_databases"
    /\ calls[5].fn = "search_tables"
    /\ calls[8].fn = "generate_sql" /\ ~IsNone(calls[8].error)
    /\ calls[9].fn = "execute_sql" /\ ~calls[9].raised

\* C24: the corrective generate_sql call gets the query and the candidate
\* tables of the fresh call, the SQL whose execution failed as previous_sql
\* and the text of that failure as error; the provider selects the
\* corrective prompt for a call exactly when the call has an error argument,
\* so the fresh call is generated with the conversion prompt and the retry
\* with the corrective one.
C24_CorrectiveCall ==
    /\ \A i \in 1..Len(Generates) :
          /\ Generates[i].mode = Some("corrective") <=> ~IsNone(Generates[i].error)
          /\ Generates[i].mode = Some("fresh") <=> IsNone(Generates[i].error)
          /\ Generates[i].query = Some(request.query)
    /\ (Len(Generates) >= 1 => IsNone(Generates[1].error))
    /\ (Len(Generates) = 2
          => /\ Generates[2].query = Generates[1].query
             /\ Generates[2].tables = Generates[1].tables
             /\ Generates[2].previous_sql = Some(Fresh.sql)
             /\ Generates[2].previous_sql = Executes[1].sql
             /\ Executes[1].raised
             /\ Generates[2].error = Some(Executes[1].msg)
             /\ Generates[2].mode = Some("corrective"))

C24_Witness ==
    /\ Len(Generates) = 2
    /\ Generates[2].mode = Some("corrective")
    /\ Generates[2].previous_sql = Some("")
    /\ Generates[2].error = Some("Failed to execute query: syntax error")
    /\ Len(Get(Generates[2].tables)) = 2

\* C28: in a response returned after a skipped execution, a successful first
\* execution or a successful corrective execution, sql and trace.generated_sql
\* are equal (the fresh SQL in the first two cases, the corrected SQL in the
\* third); when both executions fail, sql is the fresh SQL and
\* trace.generated_sql the corrected SQL; when an unexpected failure aborted
\* the run, sql is the empty string.
C28_SqlAndTraceSql ==
    Done
    => /\ (Completed /\ Len(Executes) = 0
             => Resp.sql = Fresh.sql /\ Resp.trace.generated_sql = Fresh.sql)
       /\ (Completed /\ Len(Executes) = 1 /\ ~Executes[1].raised
             => Resp.sql = Fresh.sql /\ Resp.trace.generated_sql = Fresh.sql)
       /\ (Completed /\ Len(Executes) = 2 /\ ~Executes[2].raised
             => Resp.sql = Corrective.sql
                /\ Resp.trace.generated_sql = Corrective.sql)
       /\ (Completed /\ Len(Executes) = 2 /\ Executes[2].raised
             => Resp.sql = Fresh.sql
                /\ Resp.trace.generated_sql = Corrective.sql)
       /\ (~Completed => Resp.sql = "")

C28_Witness ==
    /\ Completed
    /\ Len(Executes) = 2
    /\ Executes[1].raised /\ Executes[2].raised
    /\ Fresh.sql # Corrective.sql
    /\ Resp.sql = Fresh.sql
    /\ Resp.trace.generated_sql = Corrective.sql
    /\ Resp.sql # Resp.trace.generated_sql

\* The database the run works on, once it is resolved.
RunDatabase == Get(self.database_id)
\* The step is the return of a collaborator call of the run.
CallReturns == Len(calls') = Len(calls) + 1
Returning == calls'[Len(calls')]
StaleFailure == Some(NotRegistered(RunDatabase))

RunCalls(r, fn) == SelectSeq(r.calls, LAMBDA c : c.fn = fn)
RunFailures(r) ==
    LET failed == SelectSeq(RunCalls(r, "execute_sql"), LAMBDA c : c.raised)
    IN  [i \in 1..Len(failed) |-> failed[i].msg]
RunCorrectives(r) ==
    Len(SelectSeq(RunCalls(r, "generate_sql"), LAMBDA c : ~IsNone(c.error)))
        + (IF r.pc = "generate_sql_retry" THEN 1 ELSE 0)
RunGenerated(r) ==
    LET returned == SelectSeq(RunCalls(r, "generate_sql"), LAMBDA c : ~c.raised)
    IN  [i \in 1..Len(returned) |-> Get(returned[i].returned)]
RunReasoning(r) ==
    LET g == RunGenerated(r)
    IN  IF Len(g) = 0 THEN << >>
        ELSE IF Len(g) = 1 THEN g[1].reasoning
        ELSE g[1].reasoning \o <<"\n\nRetry attempt ", "2", ":\n">> \o g[2].reasoning
RunSql(r) ==
    LET g == RunGenerated(r) IN IF Len(g) = 0 THEN "" ELSE g[Len(g)].sql
RunTables(r) ==
    LET infos == SelectSeq(RunCalls(r, "get_database_info"),
                           LAMBDA c : ~c.raised /\ ~IsNone(Get(c.returned)))
        searches == SelectSeq(RunCalls(r, "search_tables"), LAMBDA c : ~c.raised)
    IN  {TraceData.retrieved_schemas}
            \cup { Get(Get(infos[i].returned)).tables : i \in 1..Len(infos) }
            \cup { Get(searches[i].returned) : i \in 1..Len(searches) }
RunMessages(r) ==
    { r.calls[i].msg : i \in {k \in 1..Len(r.calls) : r.calls[k].raised} }
        \cup {"No database connections available"}
        \cup (IF IsNone(r.self.database_id) THEN { }
              ELSE {NotRegistered(Get(r.self.database_id))})

\* The trace and the response of r hold what r's own calls produced.
OwnValuesOnly(r) ==
    /\ r.trace.errors = RunFailures(r)
    /\ r.trace.attempts = TraceDataAttemptsDefault + RunCorrectives(r)
    /\ r.trace.reasoning = RunReasoning(r)
    /\ r.trace.generated_sql = RunSql(r)
    /\ r.trace.retrieved_schemas \in RunTables(r)
    /\ (r.pc = "done"
          => /\ Get(r.response).trace = r.trace
             /\ Get(r.response).query = r.request.query
             /\ Get(r.response).database_id = r.self.database_id
             /\ Get(r.response).sql \in {"", RunSql(r)}
                    \cup { RunGenerated(r)[i].sql : i \in 1..Len(RunGenerated(r)) }
             /\ (~IsNone(Get(r.response).error)
                   => Get(Get(r.response).error) \in RunMessages(r)))

\* C25: with two process runs, each on its own processor, interleaved at
\* their awaits, the trace of each run (reasoning, retrieved_schemas,
\* generated_sql, errors, attempts) and its response hold only what the run's
\* own collaborator calls produced: errors are the messages of its own failed
\* executions and attempts is 1 plus its own corrective generations.
C25_Isolation ==
    /\ OwnValuesOnly(Running)
    /\ OwnValuesOnly(other)

\* One request is answered without any failure while the other one is
\* suspended before its corrective execution with a failure in its trace.
C25_Witness ==
    /\ Done
    /\ Resp.success = TRUE
    /\ Resp.trace.errors = << >>
    /\ Resp.trace.attempts = 1
    /\ other.pc = "execute_sql_retry"
    /\ Len(other.trace.errors) = 1
    /\ other.trace.attempts = 2
    /\ Len(other.calls) < Len(calls)
    /\ other.request.query # request.query

\* The stored entries with a given id, and the ids stored.
StoredAt(db_id) == {k \in 1..Len(db_configs) : db_configs[k].id = db_id}
StoredIds == { db_configs[k].id : k \in 1..Len(db_configs) }
\* The add_database calls that have stored their entry.
Stored(i) == adds[i].pc \in {"get_table_schemas", "returned"}
Without(configs, k) == SubSeq(configs, 1, k - 1) \o SubSeq(configs, k + 1, Len(configs))

LlmCallMade == Len(llm_calls') = Len(llm_calls) + 1
MadeLlmCall == llm_calls'[Len(llm_calls')]
LlmsAt(llm_id) == {k \in 1..Len(llm_configs) : llm_configs[k].id = llm_id}

====
